---------------------------- MODULE Spec2Model ----------------------------
(***************************************************************************)
(* Semantic cache (mongodb-partners/semantic-cache): the cache engine      *)
(* (services/cache_service.py), the embedding gateway                      *)
(* (services/embedding_service.py), the vector store adapter               *)
(* (database/mongodb.py) and the metrics sink (monitoring/metrics.py).     *)
(*                                                                         *)
(* Scaling.  Scores are the Atlas cosine score (1 + cos)/2 in hundredths,  *)
(* so 0.85 is 85.  Vectors have EMBEDDING_DIMENSIONS = 2 components and    *)
(* every vector of that dimension in the model has Euclidean norm 5, so    *)
(* cos(v, w) = Dot(v, w) / 25 exactly.  The clock counts TTL-sized units;  *)
(* a handler runs within one unit, so every latency it measures is 0.      *)
(* The collection is smaller than numCandidates, so $vectorSearch is the   *)
(* exact filtered top-`limit` search; the search index is read-after-write *)
(* consistent.                                                             *)
(***************************************************************************)
EXTENDS Integers, Sequences, FiniteSets, TLC

\* ------------------------------------------------------------------ bounds
MaxStore == 2
MaxTime == 2
MaxOps == 3
MaxStepOps == 2
MaxSamples == 5

\* The longest batch handed to generate_embeddings_batch.
MaxBatch == 3

\* Requests served when the metrics call of a lookup may fail.
MaxFaultOps == 2

\* Requests served when any text may be saved as a response.
MaxTextOps == 2

\* Constructions of the manager, the embedding service and the cache
\* service.
MaxConstructions == 5

\* Requests served after a startup that is told step by step.
MaxBootOps == 2

\* The largest value a counter is driven to when the collector's counters
\* are driven directly.
MaxCount == 3

\* Requests in flight at once.
MaxTasks == 5

\* Threads of the event loop's default executor, which run_in_executor(None,
\* ...) uses: min(32, os.cpu_count() + 4) of them, so never fewer than 5;
\* scaled down.
MaxWorkers == 2

\* The longest vector encoded for storage.
MaxDim == 3

\* ------------------------------------------------- configuration (config.py)
CACHE_TTL_SECONDS == 1
SIMILARITY_THRESHOLD == 85
EMBEDDING_DIMENSIONS == 2
DEFAULT_NUM_CANDIDATES == 1000
MAX_QUERY_LIMIT == 2
max_history == 4

\* ------------------------------------------------------------ input domains
Users == {"A", "B"}
Texts == {<<>>, <<" ">>, <<"a">>}
Responses == {"R1", "R2"}

\* Optional[...] fields of the pydantic models: None is present = FALSE.
Absent(dflt) == [present |-> FALSE, val |-> dflt]
Some(v) == [present |-> TRUE, val |-> v]

ThresholdInputs == {Absent(0), Some(0), Some(80)}
EmbeddingInputs == {Absent(<<>>), Some(<<>>), Some(<<3, 4>>), Some(<<5>>)}
TimestampInputs == {Absent(0)}

\* ------------------------------------------------------- embedding gateway
\* str.strip(): drop leading and trailing whitespace.
RECURSIVE LStrip(_)
LStrip(text) ==
    IF text # <<>> /\ Head(text) = " " THEN LStrip(Tail(text)) ELSE text

RECURSIVE RStrip(_)
RStrip(text) ==
    IF text # <<>> /\ text[Len(text)] = " "
    THEN RStrip(SubSeq(text, 1, Len(text) - 1))
    ELSE text

Strip(text) == RStrip(LStrip(text))

\* The pretrained model: a fixed function from text to a vector of
\* EMBEDDING_DIMENSIONS components.
ModelEncode(text) ==
    IF Strip(text) = <<"a">> THEN <<5, 0>> ELSE <<0, 5>>

\* EmbeddingService.generate_embedding: [] for empty or whitespace-only
\* text (the model is not invoked) and [] when the model raises.
generate_embedding(text, modelOk) ==
    IF text = <<>> \/ Strip(text) = <<>> THEN <<>>
    ELSE IF modelOk THEN ModelEncode(text)
    ELSE <<>>

\* Whether generate_embedding reaches self._model.encode.
ModelInvoked(text) == ~(text = <<>> \/ Strip(text) = <<>>)

\* A batch that goes to the model as it came.
valid_texts_unfiltered(texts) == texts

\* [text for text in texts if text and text.strip()]
RECURSIVE valid_texts(_)
valid_texts(texts) ==
    IF texts = <<>> THEN <<>>
    ELSE IF Head(texts) # <<>> /\ Strip(Head(texts)) # <<>>
    THEN <<Head(texts)>> \o valid_texts(Tail(texts))
    ELSE valid_texts(Tail(texts))

\* self._model.encode(list_of_texts): one vector per text, in order.
ModelEncodeBatch(texts) == [i \in 1..Len(texts) |-> ModelEncode(texts[i])]

\* EmbeddingService.generate_embeddings_batch: [] for an empty batch, for a
\* batch of blank texts, and when the model raises.
generate_embeddings_batch(texts, modelOk) ==
    IF texts = <<>> THEN <<>>
    ELSE IF valid_texts(texts) = <<>> THEN <<>>
    ELSE IF modelOk THEN ModelEncodeBatch(valid_texts(texts))
    ELSE <<>>

\* The arguments of the calls of self._model.encode that
\* generate_embeddings_batch makes: none, or one call with valid_texts.
BatchModelCalls(texts) ==
    IF texts = <<>> THEN <<>>
    ELSE IF valid_texts(texts) = <<>> THEN <<>>
    ELSE <<valid_texts(texts)>>

\* The same for generate_embedding: none, or one call with the text.
ModelCallsOf(text) == IF ModelInvoked(text) THEN <<text>> ELSE <<>>

\* ---------------------------------------------------- vector store adapter
RECURSIVE Dot(_, _)
Dot(v, w) ==
    IF v = <<>> \/ w = <<>> THEN 0
    ELSE Head(v) * Head(w) + Dot(Tail(v), Tail(w))

\* vectorSearchScore of the "cosine" index: (1 + cos(v, w)) / 2, in hundredths.
VectorScore(v, w) == 2 * (25 + Dot(v, w))

\* Documents the vector index holds: "numDimensions" of the index definition.
Indexed(doc) == Len(doc.embedding) = EMBEDDING_DIMENSIONS

\* A search whose filter forgets the user.
PreFilterAnyUser(st, user_id) == {i \in 1..Len(st) : Indexed(st[i])}

\* Stage 1, $vectorSearch with "filter": user_id $eq.
PreFilter(st, user_id) ==
    {i \in 1..Len(st) : Indexed(st[i]) /\ st[i].user_id = user_id}

Min2(a, b) == IF a <= b THEN a ELSE b

\* Stage 1, "limit": the sets of MAX_QUERY_LIMIT nearest filtered documents
\* (several when scores tie).
TopLimit(st, user_id, embedding) ==
    LET cands == PreFilter(st, user_id)
        sc(i) == VectorScore(st[i].embedding, embedding)
        k == Min2(MAX_QUERY_LIMIT, Cardinality(cands))
    IN {S \in SUBSET cands :
            /\ Cardinality(S) = k
            /\ \A i \in S : \A j \in cands \ S : sc(i) >= sc(j)}

\* A $match with $lte in place of $gte.
MatchBelow(score, threshold) == score <= threshold

\* A $match with $gt in place of $gte.
MatchStrict(score, threshold) == score > threshold

\* Stage 3, $match: vector_score $gte threshold.
Match(score, threshold) == score >= threshold

\* A pipeline without the $sort stage: any matched document may come first.
SortFirstUnsorted(st, S, embedding) == S

\* A $sort in ascending order.
SortFirstAscending(st, S, embedding) ==
    LET sc(i) == VectorScore(st[i].embedding, embedding)
    IN {i \in S : \A j \in S : sc(i) <= sc(j)}

\* Stages 4 and 5, $sort vector_score -1 and $limit 1: the documents that
\* may come first.
SortFirst(st, S, embedding) ==
    LET sc(i) == VectorScore(st[i].embedding, embedding)
    IN {i \in S : \A j \in S : sc(i) >= sc(j)}

\* The pipeline of vector_search: the indices results[0] may be.
Pipeline(st, user_id, embedding, threshold) ==
    LET sc(i) == VectorScore(st[i].embedding, embedding)
    IN UNION {SortFirst(st, {i \in S : Match(sc(i), threshold)}, embedding) :
                S \in TopLimit(st, user_id, embedding)}

\* The document aggregate returns: the stored fields and vector_score.
ResultDoc(doc, embedding) ==
    [user_id |-> doc.user_id, query |-> doc.query, response |-> doc.response,
     embedding |-> doc.embedding, timestamp |-> doc.timestamp,
     vector_score |-> VectorScore(doc.embedding, embedding)]

\* ------------------------------------------------------------ metrics sink
\* MetricsCollector._make_key: the name alone without labels, else the name
\* with its labels in sorted order (a set of <<label, value>> pairs).
_make_key(name, labels) == <<name, labels>>

NoLabels == {}

\* defaultdict(int) / defaultdict(float) / defaultdict(deque): a missing key
\* reads as the default.
GetOr(f, key, dflt) == IF key \in DOMAIN f THEN f[key] ELSE dflt

Put(f, key, v) == [k \in DOMAIN f \cup {key} |-> IF k = key THEN v ELSE f[k]]

\* MetricsCollector.increment_counter
increment_counter(c, name, value, labels) ==
    LET key == _make_key(name, labels)
    IN Put(c, key, GetOr(c, key, 0) + value)

\* A gauge that adds what is written to what it holds.
set_gauge_accumulate(g, name, value, labels) ==
    LET key == _make_key(name, labels)
    IN Put(g, key, GetOr(g, key, 0) + value)

\* MetricsCollector.set_gauge
set_gauge(g, name, value, labels) == Put(g, _make_key(name, labels), value)

\* A window cut at its newest end: pop in place of popleft.
KeepOldest(hist) ==
    IF Len(hist) > max_history THEN SubSeq(hist, 1, max_history) ELSE hist

\* The loop of record_histogram: popleft while longer than max_history.
RECURSIVE KeepRecent(_)
KeepRecent(hist) ==
    IF Len(hist) > max_history THEN KeepRecent(Tail(hist)) ELSE hist

\* MetricsCollector.record_histogram
record_histogram(h, name, value, labels) ==
    LET key == _make_key(name, labels)
    IN Put(h, key, KeepRecent(Append(GetOr(h, key, <<>>), value)))

\* sorted(values), by insertion.
RECURSIVE InsertSorted(_, _)
InsertSorted(sorted_values, v) ==
    IF sorted_values = <<>> THEN <<v>>
    ELSE IF v <= Head(sorted_values) THEN <<v>> \o sorted_values
    ELSE <<Head(sorted_values)>> \o InsertSorted(Tail(sorted_values), v)

\* An export that leaves the window in recording order.
Unsorted(values) == values

RECURSIVE Sorted(_)
Sorted(values) ==
    IF values = <<>> THEN <<>>
    ELSE InsertSorted(Sorted(Tail(values)), Head(values))

RECURSIVE SeqSum(_)
SeqSum(values) ==
    IF values = <<>> THEN 0 ELSE Head(values) + SeqSum(Tail(values))

\* int(count * 0.5), int(count * 0.95), int(count * 0.99) for pct = 50, 95,
\* 99: the float product truncates to the exact floor for every count up to
\* 5000, the largest a window gets.
PercentileIndex(count, pct) == (count * pct) \div 100

\* The statistics of one non-empty window; Python indexes from 0.  avg is
\* the pair sum, count.
HistogramSummary(values) ==
    LET sorted_values == Sorted(values)
        count == Len(sorted_values)
    IN [count |-> count,
        sum |-> SeqSum(sorted_values),
        avg |-> <<SeqSum(sorted_values), count>>,
        min |-> sorted_values[1],
        max |-> sorted_values[count],
        p50 |-> sorted_values[PercentileIndex(count, 50) + 1],
        p95 |-> sorted_values[PercentileIndex(count, 95) + 1],
        p99 |-> sorted_values[PercentileIndex(count, 99) + 1]]

\* MetricsCollector.get_metrics_summary, without uptime_seconds.
get_metrics_summary(c, g, h) ==
    [counters |-> c, gauges |-> g,
     histograms |-> [key \in {k \in DOMAIN h : h[k] # <<>>} |->
                        HistogramSummary(h[key])]]

\* str(cache_hit)
BoolStr(b) == IF b THEN "True" ELSE "False"

\* ------------------------------------------------------------------- state
VARIABLES
    store,       \* the cache collection, in insertion order
    now,         \* the clock of the storage layer and of datetime.now
    counters,    \* metrics.counters
    gauges,      \* metrics.gauges
    histograms,  \* metrics.histograms
    nops,        \* requests served so far
    last,        \* the last request served: its input, the collaborator
                 \* calls it made, the result it returned and, in prev,
                 \* the outcome of the lookup served just before it when
                 \* that one had the same user_id and query and its search
                 \* returned
    pending,     \* the request being served and the external call it is
                 \* waiting for, when the steps of a request are told apart
    recorded,    \* every sample handed to record_histogram since the last
                 \* reset, by histogram key, when the collector is driven
                 \* directly
    embedCall,   \* the last call of the embedding gateway, when the gateway
                 \* is driven directly
    boot,        \* how far lifespan_context has come, and what it set up
    singletons,  \* the shared collaborators: the one MongoDBManager, the
                 \* one EmbeddingService, and the cache services built
    tasks,       \* the requests in flight at once, each with the point it
                 \* has reached, when requests are served concurrently
    codec        \* the last vector encoded as BinData and decoded again,
                 \* when the storage format is driven directly

vars == <<store, now, counters, gauges, histograms, nops, last, pending,
          recorded, embedCall, boot, singletons, tasks, codec>>

\* What the request handlers and the collector leave alone.
otherVars == <<embedCall, boot, singletons, tasks, codec>>

metricsVars == <<counters, gauges, histograms>>

EmptyMap == [k \in {} |-> 0]

NoDoc == Absent([user_id |-> "", query |-> <<>>, response |-> "",
                 embedding |-> <<>>, timestamp |-> 0, vector_score |-> 0])

NoRequest ==
    [op |-> "none", user_id |-> "", query |-> <<>>,
     supplied |-> FALSE, reqThreshold |-> Absent(0), threshold |-> 0,
     embedding |-> <<>>, modelInvoked |-> FALSE, modelRaised |-> FALSE,
     searchCalled |-> FALSE, searchRaised |-> FALSE,
     insertCalled |-> FALSE, insertOutcome |-> "none", inserted |-> FALSE,
     insertRaised |-> FALSE, metricsRaised |-> FALSE,
     reqEmbedding |-> Absent(<<>>), calls |-> <<>>,
     doc |-> NoDoc, afterSave |-> 0, afterSupplied |-> FALSE,
     prev |-> [kind |-> "none", threshold |-> 0, score |-> 0,
               response |-> ""],
     result |-> [none |-> TRUE]]

\* No request is being served.
Idle == [stage |-> "idle"]

\* The gateway has not been called.
NoCall == [op |-> "none"]

\* lifespan_context has yielded: the storage is set up, with both indexes,
\* and the collaborators are constructed.
Up == [phase |-> "up", vector_index |-> TRUE, ttl_index |-> TRUE,
       failed |-> "none"]

\* ------------------------------------------------ shared collaborators
\* Nothing has been constructed.  client and model name the MongoClient and
\* the SentenceTransformer in use (0: none); clients and loads count the
\* MongoClient(...) and SentenceTransformer(...) calls made so far; built
\* counts the cache services constructed and services holds, for each, the
\* client and the model it reaches through its collaborators.
NotConstructed ==
    [manager |-> [initialized |-> FALSE, client |-> 0, clients |-> 0],
     embedding |-> [model |-> 0, loads |-> 0],
     services |-> {}, built |-> 0, constructions |-> 0]

\* A manager whose __init__ connects whether or not it is initialized.
ManagerNewUnguarded(m, ok) ==
    [initialized |-> ok, client |-> m.clients + 1, clients |-> m.clients + 1]

\* MongoDBManager(): __new__ returns the one instance; __init__ returns at
\* once when _initialized, else builds a MongoClient and runs ismaster, and
\* sets _initialized only when that succeeded.
ManagerNew(m, ok) ==
    IF m.initialized THEN m
    ELSE [initialized |-> ok, client |-> m.clients + 1,
          clients |-> m.clients + 1]

\* Whether that construction raises.
ManagerRaises(m, ok) == ~m.initialized /\ ~ok

\* EmbeddingService(): __new__ returns the one instance; __init__ calls
\* _load_model only while self._model is None.
EmbeddingNew(e, ok) ==
    IF e.model # 0 THEN e
    ELSE [model |-> IF ok THEN e.loads + 1 ELSE 0, loads |-> e.loads + 1]

EmbeddingRaises(e, ok) == e.model = 0 /\ ~ok

\* CacheService(): get_mongodb_manager() and then get_embedding_service();
\* an exception of the first leaves the second uncalled.
CacheServiceNew(s, connOk, modelOk) ==
    LET m == ManagerNew(s.manager, connOk)
        e == EmbeddingNew(s.embedding, modelOk)
    IN IF ManagerRaises(s.manager, connOk)
       THEN [s EXCEPT !.manager = m]
       ELSE IF EmbeddingRaises(s.embedding, modelOk)
       THEN [s EXCEPT !.manager = m, !.embedding = e]
       ELSE [s EXCEPT !.manager = m, !.embedding = e,
                      !.services = @ \cup {[client |-> m.client,
                                            model |-> e.model]},
                      !.built = @ + 1]

\* The collaborators after a startup in which every step succeeded.
Constructed == CacheServiceNew(NotConstructed, TRUE, TRUE)

\* lifespan_context has been entered and has called nothing yet.
Starting == [phase |-> "setup_connect", vector_index |-> FALSE,
             ttl_index |-> FALSE, failed |-> "none"]

\* ------------------------------------------------ vector storage format
\* AtlasBinDataVectorOptimizer.  A component is a float32 number; the ones
\* drawn are whole numbers below 2^24, which float32 holds exactly, and
\* the arithmetic on them is exact where float32 would round in the last
\* of its 24 bits.  A byte is a number in 0..255.
VectorTypes == {"float32", "float16", "int8", "binary"}

\* The vectors encoded: every component is a multiple of 255, so that the
\* int8 quantization step (max - min) / 255 is a whole number; 2295 is a
\* number float16 cannot hold (between 2048 and 4096 it holds the even
\* numbers only).
Vectors == UNION {[1..n -> {-510, -255, 0, 255, 2295}] : n \in 0..MaxDim}

\* The position of the leading bit of a >= 1.
Log2(a) == CHOOSE e \in 0..30 : 2^e <= a /\ (e = 30 \/ a < 2^(e + 1))

\* One float32 of np_array.tobytes(), and of struct.pack('ff', ...): sign,
\* 8 bits of exponent biased by 127, 23 bits of fraction, low byte first.
Float32Bytes(x) ==
    IF x = 0 THEN <<0, 0, 0, 0>>
    ELSE LET a == IF x < 0 THEN -x ELSE x
             e == Log2(a)
             E == e + 127
             M == a * 2^(23 - e) - 2^23
             sign == IF x < 0 THEN 1 ELSE 0
         IN <<M % 256, (M \div 256) % 256,
              (E % 2) * 128 + M \div 65536, sign * 128 + E \div 2>>

\* One float32 of np.frombuffer(data, dtype=np.float32), and of
\* struct.unpack('ff', ...).
Float32Of(b) ==
    LET sign == b[4] \div 128
        E == (b[4] % 128) * 2 + b[3] \div 128
        M == (b[3] % 128) * 65536 + b[2] * 256 + b[1]
    IN IF E = 0 THEN 0
       ELSE (IF sign = 1 THEN -1 ELSE 1) * ((2^23 + M) \div 2^(150 - E))

\* One float16 of np_array.astype(np.float16).tobytes(): the number is
\* rounded to 11 significant bits, a tie to the even neighbour; sign, 5
\* bits of exponent biased by 15, 10 bits of fraction, low byte first.
Float16Bytes(x) ==
    IF x = 0 THEN <<0, 0>>
    ELSE LET a == IF x < 0 THEN -x ELSE x
             e == Log2(a)
             shift == e - 10
             kept == IF shift <= 0 THEN a * 2^(10 - e) ELSE a \div 2^shift
             rest == IF shift <= 0 THEN 0 ELSE a % 2^shift
             half == IF shift <= 0 THEN 1 ELSE 2^(shift - 1)
             up == IF rest > half \/ (rest = half /\ kept % 2 = 1)
                   THEN 1 ELSE 0
             carried == kept + up = 2^11
             E == (IF carried THEN e + 1 ELSE e) + 15
             M == IF carried THEN 0 ELSE kept + up - 2^10
             sign == IF x < 0 THEN 1 ELSE 0
         IN <<M % 256, sign * 128 + E * 4 + M \div 256>>

\* One float16 of np.frombuffer(data, dtype=np.float16).astype(np.float32).
Float16Of(b) ==
    LET sign == b[2] \div 128
        E == (b[2] % 128) \div 4
        M == (b[2] % 4) * 256 + b[1]
        value == IF E >= 25 THEN (2^10 + M) * 2^(E - 25)
                 ELSE (2^10 + M) \div 2^(25 - E)
    IN IF E = 0 THEN 0 ELSE (IF sign = 1 THEN -1 ELSE 1) * value

\* encode_vector_bindata(embedding, vector_type): the BSON document
\* {meta, data} it wraps, or the exception it lets escape.  nan is the
\* byte astype(np.uint8) makes of a NaN, which C leaves undefined.
encode_vector_bindata(embedding, vector_type, nan) ==
    LET n == Len(embedding)
        metadata == [vector_type |-> vector_type, dimensions |-> n,
                     quantization_version |-> "v1.0"]
        document(subtype, bytes) ==
            [raised |-> FALSE, meta |-> metadata,
             data |-> [subtype |-> subtype, bytes |-> bytes]]
        components == {embedding[i] : i \in 1..n}
        min_val == CHOOSE x \in components : \A y \in components : x <= y
        max_val == CHOOSE x \in components : \A y \in components : x >= y
        \* (normalized * 255).astype(np.uint8): the fraction is cut off;
        \* with max = min, normalized is 0 / 0
        quantized == [i \in 1..n |->
                        IF max_val = min_val THEN nan
                        ELSE ((embedding[i] - min_val) * 255)
                                 \div (max_val - min_val)]
        \* np.packbits: eight bits to a byte, high bit first, the last
        \* byte filled with zeros
        bit(i) == IF i <= n /\ embedding[i] > 0 THEN 1 ELSE 0
        packed == [k \in 1..((n + 7) \div 8) |->
                     bit(8 * k - 7) * 128 + bit(8 * k - 6) * 64
                       + bit(8 * k - 5) * 32 + bit(8 * k - 4) * 16
                       + bit(8 * k - 3) * 8 + bit(8 * k - 2) * 4
                       + bit(8 * k - 1) * 2 + bit(8 * k)]
    IN CASE vector_type = "float16" ->
              document(0, [i \in 1..(2 * n) |->
                  Float16Bytes(embedding[(i - 1) \div 2 + 1])[((i - 1) % 2) + 1]])
         [] vector_type = "int8" ->
              \* np_array.min() of an empty array raises ValueError
              IF n = 0 THEN [raised |-> TRUE]
              ELSE document(1, Float32Bytes(min_val) \o Float32Bytes(max_val)
                                   \o quantized)
         [] vector_type = "binary" -> document(2, packed)
         [] OTHER ->
              document(0, [i \in 1..(4 * n) |->
                  Float32Bytes(embedding[(i - 1) \div 4 + 1])[((i - 1) % 4) + 1]])

\* decode_vector_bindata(binary_data).  bson.decode hands a field of
\* binary subtype 0 back as bytes and a field of any other subtype as
\* Binary; bytes have no attribute subtype, and the AttributeError ends in
\* `except Exception: return []`.
decode_vector_bindata(binary_data) ==
    LET meta == binary_data.meta
        data == IF binary_data.data.subtype = 0
                THEN [bytes |-> binary_data.data.bytes]
                ELSE binary_data.data
        bytes == data.bytes
        min_val == Float32Of(SubSeq(bytes, 1, 4))
        max_val == Float32Of(SubSeq(bytes, 5, 8))
        quantized == SubSeq(bytes, 9, Len(bytes))
        \* np.unpackbits: every bit of every byte, high bit first
        unpacked == [i \in 1..(8 * Len(bytes)) |->
                       (bytes[(i - 1) \div 8 + 1] \div 2^(7 - ((i - 1) % 8))) % 2]
    IN IF "subtype" \notin DOMAIN data THEN <<>>
       ELSE CASE data.subtype = 0 ->
                   IF meta.vector_type = "float16"
                   THEN [i \in 1..(Len(bytes) \div 2) |->
                           Float16Of(SubSeq(bytes, 2 * i - 1, 2 * i))]
                   ELSE [i \in 1..(Len(bytes) \div 4) |->
                           Float32Of(SubSeq(bytes, 4 * i - 3, 4 * i))]
              [] data.subtype = 1 ->
                   [i \in 1..Len(quantized) |->
                      (quantized[i] * (max_val - min_val)) \div 255 + min_val]
              [] data.subtype = 2 ->
                   [i \in 1..Len(unpacked) |-> unpacked[i] * 2 - 1]
              [] OTHER -> <<>>


\* The service before its first request.
InitService ==
    /\ store = <<>>
    /\ now = 0
    /\ counters = EmptyMap
    /\ gauges = EmptyMap
    /\ histograms = EmptyMap
    /\ nops = 0
    /\ last = NoRequest
    /\ pending = Idle
    /\ recorded = EmptyMap
    /\ embedCall = NoCall
    /\ tasks = EmptyMap
    /\ codec = [vector_type |-> "none"]

\* The service after a startup in which every step succeeded.
Init ==
    /\ InitService
    /\ boot = Up
    /\ singletons = Constructed

\* --------------------------------------------------------------- save path
\* `not entry.embedding`: None and [] are both falsy.
Truthy(opt) == opt.present /\ opt.val # <<>>

\* CacheEntry.to_dict followed by the update of "embedding": None fields are
\* dropped and the timestamp defaults to datetime.now.
to_dict(user_id, query, response, timestamp, embedding) ==
    [user_id |-> user_id, query |-> query, response |-> response,
     embedding |-> embedding,
     timestamp |-> IF timestamp.present THEN timestamp.val ELSE now]

\* A write that replaces the stored entry of the same user_id and query
\* (replace_one with upsert) and inserts only when there is none.
insert_one_upsert(st, entry) ==
    IF \E i \in 1..Len(st) :
           st[i].user_id = entry.user_id /\ st[i].query = entry.query
    THEN [i \in 1..Len(st) |->
             IF st[i].user_id = entry.user_id /\ st[i].query = entry.query
             THEN entry ELSE st[i]]
    ELSE Append(st, entry)

\* cache_collection.insert_one, acknowledged: one new document after those
\* stored.
insert_one(st, entry) == Append(st, entry)

\* What insert_one may do: acknowledge the write, raise a PyMongoError, or
\* raise an error of another class (bson's InvalidDocument, for one).
InsertOutcomes == {"ack", "PyMongoError", "InvalidDocument"}

\* An insert_cache_entry that returns True whatever insert_one did.
insert_cache_entry_true(outcome) == [raised |-> FALSE, success |-> TRUE]

\* What MongoDBManager.insert_cache_entry hands to its caller: True when
\* insert_one acknowledged the write, False when it raised a PyMongoError
\* (`except PyMongoError`); an error of another class is not caught and
\* reaches the caller.
insert_cache_entry(outcome) ==
    [raised |-> outcome \notin {"ack", "PyMongoError"},
     success |-> outcome = "ack"]

\* The counter insert_cache_entry increments: cache_writes by status, and
\* none when the error passed it.
InsertCounters(c, outcome) ==
    IF outcome = "ack"
    THEN increment_counter(c, "cache_writes", 1, {<<"status", "success">>})
    ELSE IF outcome = "PyMongoError"
    THEN increment_counter(c, "cache_writes", 1, {<<"status", "error">>})
    ELSE c

\* A save that goes on with a placeholder vector when the gateway returns [].
SaveEmbeddingPlaceholder(query, embedding, modelOk) ==
    IF Truthy(embedding) THEN embedding.val
    ELSE IF generate_embedding(query, modelOk) = <<>> THEN <<0, 5>>
    ELSE generate_embedding(query, modelOk)

\* A save_to_cache that embeds the query whether or not the caller supplied
\* an embedding.
SaveEmbeddingRegenerates(query, embedding, modelOk) ==
    generate_embedding(query, modelOk)

\* The embedding save_to_cache goes on with: the caller's when it is truthy,
\* else the gateway's.
SaveEmbedding(query, embedding, modelOk) ==
    IF ~Truthy(embedding) THEN generate_embedding(query, modelOk)
    ELSE embedding.val

\* A save_to_cache whose try block lets the exception through: the caller
\* gets the exception and no result.
SaveExceptionEscapes(e) == [exception |-> e]

\* The `except Exception` of save_to_cache: the result carries str(e).
SaveExceptionResult(e) == [message |-> "Failed to save to cache", error |-> e]

\* The collaborators save_to_cache calls, in order.
SaveCalls(embedding, emb) ==
    (IF ~Truthy(embedding) THEN <<"generate_embedding">> ELSE <<>>)
        \o (IF emb # <<>> THEN <<"insert_cache_entry">> ELSE <<>>)

\* CacheService.save_to_cache
SaveToCache(user_id, query, response, timestamp, embedding, modelOk, outcome) ==
    LET emb == SaveEmbedding(query, embedding, modelOk)
        entry_dict == to_dict(user_id, query, response, timestamp, emb)
        ret == insert_cache_entry(outcome)
        req == [NoRequest EXCEPT !.op = "save", !.user_id = user_id,
                    !.query = query, !.reqEmbedding = embedding,
                    !.calls = SaveCalls(embedding, emb),
                    !.supplied = Truthy(embedding), !.embedding = emb,
                    !.modelInvoked = ~Truthy(embedding) /\ ModelInvoked(query),
                    !.modelRaised = /\ ~Truthy(embedding)
                                    /\ ModelInvoked(query)
                                    /\ ~modelOk]
        called == [req EXCEPT !.insertCalled = TRUE,
                       !.insertOutcome = outcome,
                       !.insertRaised = ret.raised]
    IN
    /\ nops < MaxOps
    /\ nops' = nops + 1
    /\ UNCHANGED <<now, gauges>>
    /\ IF emb = <<>>
       THEN /\ last' = [req EXCEPT !.result =
                           [message |-> "Failed to save to cache",
                            error |-> "Embedding generation failed"]]
            /\ UNCHANGED <<store, counters, histograms>>
       ELSE IF ret.raised
       THEN \* insert_one raises past insert_cache_entry: `except Exception`
            /\ last' = [called EXCEPT
                           !.result = SaveExceptionResult(outcome)]
            /\ counters' = InsertCounters(counters, outcome)
            /\ UNCHANGED <<store, histograms>>
       ELSE IF ret.success
       THEN /\ Len(store) < MaxStore
            /\ store' = insert_one(store, entry_dict)
            /\ counters' = InsertCounters(counters, outcome)
            /\ histograms' = record_histogram(histograms,
                                 "cache_save_latency_ms", 0, NoLabels)
            /\ last' = [called EXCEPT !.inserted = TRUE, !.result =
                           [message |-> "Successfully saved to cache"]]
       ELSE /\ counters' = InsertCounters(counters, outcome)
            /\ last' = [called EXCEPT !.result =
                           [message |-> "Failed to save to cache",
                            error |-> "Database insert failed"]]
            /\ UNCHANGED <<store, histograms>>

Save ==
    \E user_id \in Users, query \in Texts, response \in Responses,
       timestamp \in TimestampInputs, embedding \in EmbeddingInputs,
       modelOk \in BOOLEAN, outcome \in InsertOutcomes :
        /\ SaveToCache(user_id, query, response, timestamp, embedding,
                       modelOk, outcome)
        /\ UNCHANGED <<pending, recorded, otherVars>>

\* ------------------------------------------------------------- lookup path
\* `request.threshold or config.SIMILARITY_THRESHOLD`: 0.0 is falsy.
EffectiveThresholdFalsy(threshold) ==
    IF threshold.present /\ threshold.val # 0 THEN threshold.val
    ELSE SIMILARITY_THRESHOLD

\* `request.threshold if request.threshold is not None else
\* config.SIMILARITY_THRESHOLD`
EffectiveThreshold(threshold) ==
    IF threshold.present THEN threshold.val ELSE SIMILARITY_THRESHOLD

\* A vector_search that lets the exception of aggregate reach its caller.
vector_search_reraise(st, embedding, searchOk, found) ==
    IF ~searchOk THEN [raised |-> TRUE, doc |-> NoDoc]
    ELSE IF found = 0 THEN [raised |-> FALSE, doc |-> NoDoc]
    ELSE [raised |-> FALSE, doc |-> Some(ResultDoc(st[found], embedding))]

\* What MongoDBManager.vector_search hands to its caller.  searchOk is
\* whether aggregate returns rather than raises; found is 0 for an empty
\* result list, else the index of results[0].  `except Exception` turns a
\* raising aggregate into None, so raised is never TRUE.
vector_search(st, embedding, searchOk, found) ==
    IF ~searchOk THEN [raised |-> FALSE, doc |-> NoDoc]
    ELSE IF found = 0 THEN [raised |-> FALSE, doc |-> NoDoc]
    ELSE [raised |-> FALSE, doc |-> Some(ResultDoc(st[found], embedding))]

\* A vector_search that counts a failed search as a miss.
SearchCountersErrorAsMiss(c, searchOk, found) ==
    increment_counter(c, "vector_search_total", 1,
        {<<"result", IF searchOk /\ found # 0 THEN "hit" ELSE "miss">>})

\* The metrics vector_search records.
SearchCounters(c, searchOk, found) ==
    increment_counter(c, "vector_search_total", 1,
        {<<"result", IF ~searchOk THEN "error"
                     ELSE IF found = 0 THEN "miss" ELSE "hit">>})

SearchHistograms(h, searchOk, search_time) ==
    IF searchOk
    THEN record_histogram(h, "vector_search_latency_ms", search_time, NoLabels)
    ELSE h

\* A log_vector_search_metrics that counts the hits only.
LogCountersHitsOnly(c, user_id, cache_hit) ==
    IF cache_hit
    THEN increment_counter(c, "cache_requests", 1,
                           {<<"user_id", user_id>>, <<"hit", "True">>})
    ELSE c

\* log_vector_search_metrics: the counters, histograms and gauges after it.
LogCounters(c, user_id, cache_hit) ==
    increment_counter(c, "cache_requests", 1,
                      {<<"user_id", user_id>>, <<"hit", BoolStr(cache_hit)>>})

\* A log_vector_search_metrics that records the latency and no similarity.
LogHistogramsLatencyOnly(h, latency_ms, result_score) ==
    record_histogram(h, "query_latency_ms", latency_ms, NoLabels)

LogHistograms(h, latency_ms, result_score) ==
    record_histogram(
        record_histogram(h, "query_latency_ms", latency_ms, NoLabels),
        "similarity_score", result_score, NoLabels)

LogGauges(g, user_id, num_candidates) ==
    set_gauge(g, "candidates", num_candidates, {<<"user_id", user_id>>})

\* The results lookup_cache returns.
EmbeddingFailedResult ==
    [response |-> "", error |-> "Embedding generation failed"]

HitResult(result, total_time) ==
    [response |-> result.response, latency_ms |-> total_time,
     similarity_score |-> result.vector_score]

\* A miss that reports a similarity_score of 0.
MissResultWithScore(total_time) ==
    [response |-> "cache_miss", latency_ms |-> total_time,
     similarity_score |-> 0]

\* A miss with an empty response.
MissResultEmpty(total_time) == [response |-> "", latency_ms |-> total_time]

MissResult(total_time) ==
    [response |-> "cache_miss", latency_ms |-> total_time]

ExceptionResult(e, total_time) ==
    [response |-> "", error |-> e, latency_ms |-> total_time]

\* A search that takes the document it returns out of the collection.
StoreAfterAggregateTakes(st, found) ==
    IF found = 0 THEN st
    ELSE SubSeq(st, 1, found - 1) \o SubSeq(st, found + 1, Len(st))

\* The collection after aggregate(pipeline): the stages $vectorSearch,
\* $addFields, $match, $sort and $limit read, none writes ($out, $merge),
\* and lookup_cache calls nothing else on the collection.
StoreAfterAggregate(st, found) == st

\* The collaborators lookup_cache calls, in order.
LookupCalls(embedding) ==
    <<"generate_embedding">>
        \o (IF embedding # <<>> THEN <<"vector_search">> ELSE <<>>)

\* What the awaited log_vector_search_metrics may do: return, raise before
\* its first update, or raise after its last one.
MetricsCalls == {"returns", "raises", "raises_late"}

\* CacheService.lookup_cache
LookupCache(user_id, query, threshold, modelOk, searchOk, found, metricsCall) ==
    LET thr == EffectiveThreshold(threshold)
        embedding == generate_embedding(query, modelOk)
        results == Pipeline(store, user_id, embedding, thr)
        ret == vector_search(store, embedding, searchOk, found)
        result == ret.doc.val
        req == [NoRequest EXCEPT !.op = "lookup", !.user_id = user_id,
                    !.query = query, !.reqThreshold = threshold,
                    !.threshold = thr, !.embedding = embedding,
                    !.calls = LookupCalls(embedding),
                    !.modelInvoked = ModelInvoked(query),
                    !.modelRaised = ModelInvoked(query) /\ ~modelOk,
                    !.prev = IF /\ last.op = "lookup"
                                /\ last.user_id = user_id
                                /\ last.query = query
                                /\ last.searchCalled
                                /\ ~last.searchRaised
                             THEN [kind |-> IF last.doc.present
                                            THEN "hit" ELSE "miss",
                                   threshold |-> last.threshold,
                                   score |-> last.doc.val.vector_score,
                                   response |-> last.result.response]
                             ELSE NoRequest.prev,
                    !.afterSave = IF last.op = "save" /\ last.inserted
                                  THEN Len(store) ELSE 0,
                    !.afterSupplied = last.op = "save" /\ last.supplied]
        searched == [req EXCEPT !.searchCalled = TRUE,
                        !.searchRaised = ~searchOk]
        cache_hit == ret.doc.present
        result_score == IF cache_hit THEN result.vector_score ELSE 0
        searchedCounters == SearchCounters(counters, searchOk, found)
        searchedHistograms == SearchHistograms(histograms, searchOk, 0)
    IN
    /\ nops < MaxOps
    /\ nops' = nops + 1
    /\ store' = StoreAfterAggregate(store, found)
    /\ UNCHANGED now
    /\ IF searchOk /\ embedding # <<>> /\ results # {}
       THEN found \in results
       ELSE found = 0
    /\ IF embedding = <<>>
       THEN /\ last' = [req EXCEPT !.result = EmbeddingFailedResult]
            /\ UNCHANGED metricsVars
       ELSE IF ret.raised
       THEN \* `except Exception` of lookup_cache
            /\ last' = [searched EXCEPT
                           !.result = ExceptionResult("search failed", 0)]
            /\ counters' = SearchCounters(counters, searchOk, found)
            /\ histograms' = SearchHistograms(histograms, searchOk, 0)
            /\ UNCHANGED gauges
       ELSE /\ IF metricsCall = "raises"
               THEN /\ counters' = searchedCounters
                    /\ histograms' = searchedHistograms
                    /\ UNCHANGED gauges
               ELSE /\ counters' = LogCounters(searchedCounters, user_id,
                                               cache_hit)
                    /\ histograms' = LogHistograms(searchedHistograms, 0,
                                                   result_score)
                    /\ gauges' = LogGauges(gauges, user_id,
                                           DEFAULT_NUM_CANDIDATES)
            /\ IF metricsCall # "returns"
               THEN \* log_vector_search_metrics is awaited inside the try:
                    \* `except Exception` of lookup_cache
                    last' = [searched EXCEPT !.doc = ret.doc,
                                !.metricsRaised = TRUE,
                                !.result = ExceptionResult("metrics failed",
                                                           0)]
               ELSE IF cache_hit
               THEN last' = [searched EXCEPT !.doc = Some(result),
                                !.result = HitResult(result, 0)]
               ELSE last' = [searched EXCEPT !.result = MissResult(0)]

Lookup ==
    \E user_id \in Users, query \in Texts, threshold \in ThresholdInputs,
       modelOk \in BOOLEAN, searchOk \in BOOLEAN, found \in 0..Len(store) :
        /\ LookupCache(user_id, query, threshold, modelOk, searchOk, found,
                       "returns")
        /\ UNCHANGED <<pending, recorded, otherVars>>

\* ------------------------------------------------------------ expiry policy
\* The TTL index timestamp_ttl_idx: the storage layer's background task
\* deletes, at some moment of its own choosing, a document older than
\* expireAfterSeconds.
Expired(doc, t) == t - doc.timestamp > CACHE_TTL_SECONDS

RemoveAt(s, i) == SubSeq(s, 1, i - 1) \o SubSeq(s, i + 1, Len(s))

TTLExpire ==
    \E i \in 1..Len(store) :
        /\ Expired(store[i], now)
        /\ store' = RemoveAt(store, i)
        /\ last' = [NoRequest EXCEPT !.op = "expire"]
        /\ UNCHANGED <<now, counters, gauges, histograms, nops, pending,
                       recorded, otherVars>>

\* Time passes.
Tick ==
    /\ now < MaxTime
    /\ now' = now + 1
    /\ UNCHANGED <<store, counters, gauges, histograms, nops, last, pending,
                   recorded, otherVars>>

Next == Save \/ Lookup \/ TTLExpire \/ Tick

Spec == Init /\ [][Next]_vars

\* ------------------------------------------------ a request, step by step
\* What the call of the embedding model may do: return the vector, raise, or
\* never return.  run_in_executor is awaited without a timeout.
ModelCalls == {"returns", "raises", "silent"}

\* What a call of the collection (aggregate, insert_one) may do: return,
\* raise, find no server to talk to, or reach a server that never answers.
\* The client sets serverSelectionTimeoutMS and connectTimeoutMS and neither
\* socketTimeoutMS nor timeoutMS, so only the search for a server is timed.
StoreCalls == {"returns", "raises", "unreachable", "silent"}

\* The handler is entered: lookup_cache awaits generate_embedding.
BeginLookup(user_id, query, threshold, modelCall, storeCall) ==
    /\ pending.stage = "idle"
    /\ nops < MaxStepOps
    /\ pending' = [stage |-> "embedding", op |-> "lookup",
                   user_id |-> user_id, query |-> query, response |-> "",
                   threshold |-> threshold, timestamp |-> Absent(0),
                   embedding |-> Absent(<<>>),
                   modelCall |-> modelCall, storeCall |-> storeCall]
    /\ UNCHANGED <<store, now, counters, gauges, histograms, nops, last,
                   recorded, otherVars>>

\* The handler is entered: save_to_cache awaits generate_embedding, or goes
\* on to insert_cache_entry with the caller's embedding.
BeginSave(user_id, query, response, timestamp, embedding, modelCall, storeCall) ==
    /\ pending.stage = "idle"
    /\ nops < MaxStepOps
    /\ pending' = [stage |-> IF Truthy(embedding) THEN "insert"
                             ELSE "embedding",
                   op |-> "save",
                   user_id |-> user_id, query |-> query,
                   response |-> response, threshold |-> Absent(0),
                   timestamp |-> timestamp, embedding |-> embedding,
                   modelCall |-> modelCall, storeCall |-> storeCall]
    /\ UNCHANGED <<store, now, counters, gauges, histograms, nops, last,
                   recorded, otherVars>>

\* The handler runs to its return statement, its calls having ended as
\* modelOk and storeOk tell.
Complete(modelOk, storeOk) ==
    /\ pending' = Idle
    /\ UNCHANGED <<recorded, otherVars>>
    /\ IF pending.op = "lookup"
       THEN \E found \in 0..Len(store) :
                LookupCache(pending.user_id, pending.query,
                            pending.threshold, modelOk, storeOk, found,
                            "returns")
       ELSE SaveToCache(pending.user_id, pending.query, pending.response,
                        pending.timestamp, pending.embedding, modelOk,
                        IF storeOk THEN "ack" ELSE "PyMongoError")

\* A handler that goes on to the collection whatever generate_embedding
\* returned.
EmbeddingReturnsGoesOn ==
    /\ pending.stage = "embedding"
    /\ ModelInvoked(pending.query) => pending.modelCall # "silent"
    /\ pending' = [pending EXCEPT
                      !.stage = IF pending.op = "lookup"
                                THEN "search" ELSE "insert"]
    /\ UNCHANGED <<store, now, counters, gauges, histograms, nops,
                   last, recorded, otherVars>>

\* generate_embedding returns: the text was blank, or the model returned or
\* raised.  With [] the handler returns its error; otherwise it goes on to
\* the collection.
EmbeddingReturns ==
    /\ pending.stage = "embedding"
    /\ ModelInvoked(pending.query) => pending.modelCall # "silent"
    /\ IF generate_embedding(pending.query,
                             pending.modelCall = "returns") = <<>>
       THEN Complete(pending.modelCall = "returns", TRUE)
       ELSE /\ pending' = [pending EXCEPT
                              !.stage = IF pending.op = "lookup"
                                        THEN "search" ELSE "insert"]
            /\ UNCHANGED <<store, now, counters, gauges, histograms, nops,
                           last, recorded, otherVars>>

\* aggregate or insert_one returns or raises.
StoreReturns ==
    /\ pending.stage \in {"search", "insert"}
    /\ pending.storeCall \in {"returns", "raises"}
    /\ Complete(TRUE, pending.storeCall = "returns")

\* serverSelectionTimeoutMS runs out: the driver raises
\* ServerSelectionTimeoutError, a PyMongoError.
ServerSelectionTimeout ==
    /\ pending.stage \in {"search", "insert"}
    /\ pending.storeCall = "unreachable"
    /\ Complete(TRUE, FALSE)

\* A step of the request being served.
RequestStep == EmbeddingReturns \/ StoreReturns \/ ServerSelectionTimeout

Begin ==
    \/ \E user_id \in Users, query \in Texts, threshold \in ThresholdInputs,
          modelCall \in ModelCalls, storeCall \in StoreCalls :
           BeginLookup(user_id, query, threshold, modelCall, storeCall)
    \/ \E user_id \in Users, query \in Texts, response \in Responses,
          timestamp \in TimestampInputs, embedding \in EmbeddingInputs,
          modelCall \in ModelCalls, storeCall \in StoreCalls :
           BeginSave(user_id, query, response, timestamp, embedding,
                     modelCall, storeCall)

NextSteps ==
    Begin \/ EmbeddingReturns \/ StoreReturns \/ ServerSelectionTimeout

\* Requests served one step at a time.  A call that is going to return or
\* raise does so, and a timer that is running fires.
SpecSteps ==
    /\ Init
    /\ [][NextSteps]_vars
    /\ WF_vars(EmbeddingReturns)
    /\ WF_vars(StoreReturns)
    /\ WF_vars(ServerSelectionTimeout)

\* ---------------------------------------- the storage format, driven
\* A vector is encoded and the result decoded again.
EncodeDecode(embedding, vector_type, nan) ==
    /\ codec.vector_type = "none"
    /\ LET encoded == encode_vector_bindata(embedding, vector_type, nan)
       IN codec' = [vector |-> embedding, vector_type |-> vector_type,
                    raised |-> encoded.raised,
                    encoded |-> encoded,
                    decoded |-> IF encoded.raised THEN <<>>
                                ELSE decode_vector_bindata(encoded)]
    /\ UNCHANGED <<store, now, counters, gauges, histograms, nops, last,
                   pending, recorded, embedCall, boot, singletons, tasks>>

NextVectors ==
    \E embedding \in Vectors, vector_type \in VectorTypes, nan \in 0..255 :
        EncodeDecode(embedding, vector_type, nan)

SpecVectors == Init /\ [][NextVectors]_vars

\* ------------------------------------------------------------- startup
\* A step of startup raises: lifespan_context logs and re-raises, the
\* application does not start.
Aborted(step) == [boot EXCEPT !.phase = "aborted", !.failed = step]

ServiceUnchanged ==
    UNCHANGED <<store, now, counters, gauges, histograms, nops, last,
                pending, recorded, embedCall, tasks, codec>>

\* The cache service get_cache_service builds at startup, in its two
\* steps.
StartupManager(ok) == [singletons EXCEPT !.manager = ManagerNew(@, ok)]

StartupService(ok) == CacheServiceNew(singletons, TRUE, ok)

\* initialize_database: MongoClient(...) and the ismaster command.
SetupConnect(ok) ==
    /\ boot.phase = "setup_connect"
    /\ boot' = IF ok THEN [boot EXCEPT !.phase = "setup_collection"]
               ELSE Aborted("storage connection")
    /\ UNCHANGED singletons
    /\ ServiceUnchanged

\* _setup_collection: list_collection_names and create_collection; a
\* PyMongoError is logged and re-raised.
SetupCollection(ok) ==
    /\ boot.phase = "setup_collection"
    /\ boot' = IF ok THEN [boot EXCEPT !.phase = "vector_index"]
               ELSE Aborted("collection")
    /\ UNCHANGED singletons
    /\ ServiceUnchanged

\* _setup_vector_search_index: an exception of list_search_indexes or
\* create_search_index is logged and swallowed.
SetupVectorSearchIndex(ok) ==
    /\ boot.phase = "vector_index"
    /\ boot' = [boot EXCEPT !.phase = "ttl_index", !.vector_index = ok]
    /\ UNCHANGED singletons
    /\ ServiceUnchanged

\* _setup_ttl_indexes: a PyMongoError of index_information or create_index
\* is logged and swallowed.
SetupTTLIndexes(ok) ==
    /\ boot.phase = "ttl_index"
    /\ boot' = [boot EXCEPT !.phase = "manager", !.ttl_index = ok]
    /\ UNCHANGED singletons
    /\ ServiceUnchanged

\* MongoDBManager.__init__, reached through get_cache_service: MongoClient
\* and ismaster; a PyMongoError is logged and re-raised.
ManagerConnect(ok) ==
    /\ boot.phase = "manager"
    /\ boot' = IF ok THEN [boot EXCEPT !.phase = "model"]
               ELSE Aborted("storage connection")
    /\ singletons' = StartupManager(ok)
    /\ ServiceUnchanged

\* EmbeddingService._load_model, reached through get_cache_service: an
\* exception is logged and re-raised.
LoadModel(ok) ==
    /\ boot.phase = "model"
    /\ boot' = IF ok THEN [boot EXCEPT !.phase = "up"]
               ELSE Aborted("embedding model")
    /\ singletons' = StartupService(ok)
    /\ ServiceUnchanged

Startup ==
    \E ok \in BOOLEAN :
        \/ SetupConnect(ok)
        \/ SetupCollection(ok)
        \/ SetupVectorSearchIndex(ok)
        \/ SetupTTLIndexes(ok)
        \/ ManagerConnect(ok)
        \/ LoadModel(ok)

\* Requests are routed once lifespan_context has yielded.
Serving ==
    /\ boot.phase = "up"
    /\ nops < MaxBootOps

ServeSave == Serving /\ Save

\* A search without its index finds nothing: told as a search that fails.
ServeLookup ==
    /\ Serving
    /\ \E user_id \in Users, query \in Texts, threshold \in ThresholdInputs,
          modelOk \in BOOLEAN, searchOk \in BOOLEAN,
          found \in 0..Len(store) :
           /\ ~boot.vector_index => ~searchOk
           /\ LookupCache(user_id, query, threshold, modelOk, searchOk,
                          found, "returns")
    /\ UNCHANGED <<pending, recorded, otherVars>>

\* Entries expire where the TTL index was created.
ServeExpire ==
    /\ boot.phase = "up"
    /\ boot.ttl_index
    /\ TTLExpire

ServeTick ==
    /\ boot.phase = "up"
    /\ Tick

NextStartup ==
    Startup \/ ServeSave \/ ServeLookup \/ ServeExpire \/ ServeTick

InitStartup ==
    /\ InitService
    /\ boot = Starting
    /\ singletons = NotConstructed

SpecStartup == InitStartup /\ [][NextStartup]_vars

\* ---------------------------------------------------- concurrent requests
\* The requests in flight: lookups with an embeddable query on an empty
\* collection and saves without an embedding.  A request is queued (its
\* model call is submitted to the executor and the handler is suspended in
\* `await`), encoding (a thread of the executor runs self._model.encode for
\* it), encoded (the call has returned and the handler waits for the event
\* loop), searching or inserting (the handler runs on the event loop, inside
\* the blocking aggregate or insert_one call), counting (inside
\* `self.counters[key] += value`, between its read and its write; reg is
\* what it read) or done.
TaskIds == 1..MaxTasks

TaskOps == {"lookup", "save"}

TaskStages ==
    {"queued", "encoding", "encoded", "searching", "inserting", "counting",
     "done"}

InStage(stage) == {t \in DOMAIN tasks : tasks[t].stage = stage}

\* The stages in which the handler occupies the thread of the event loop.
OnLoop == InStage("searching") \cup InStage("inserting")
              \cup InStage("counting")

\* An event loop that lets a handler start while another one is running.
LoopAlwaysFree == TRUE

\* The event loop runs one handler at a time; aggregate and insert_one are
\* plain calls that do not yield, and neither does anything between them
\* and the return of the handler: while a request is there, no other
\* handler runs.
LoopFree == OnLoop = {}

\* The counter and the histogram a request updates before it returns: the
\* lookup finds nothing and is logged as a miss, the save is acknowledged.
TaskCounterKey(op) ==
    IF op = "lookup"
    THEN _make_key("cache_requests",
                   {<<"user_id", "A">>, <<"hit", BoolStr(FALSE)>>})
    ELSE _make_key("cache_writes", {<<"status", "success">>})

TaskHistogram(op) ==
    IF op = "lookup" THEN "query_latency_ms" ELSE "cache_save_latency_ms"

AtStage(t, stage) == Put(tasks, t, [tasks[t] EXCEPT !.stage = stage])

TasksOnly ==
    UNCHANGED <<store, now, counters, gauges, histograms, nops, last,
                pending, recorded, embedCall, boot, singletons, codec>>

\* The request is routed: the handler runs up to `await
\* loop.run_in_executor(None, ...)`, which submits the model call.
Arrive(t, op) ==
    /\ t \in TaskIds \ DOMAIN tasks
    /\ LoopFree
    /\ tasks' = Put(tasks, t, [op |-> op, stage |-> "queued", reg |-> 0])
    /\ TasksOnly

\* A free thread of the executor takes the call and enters encode.
StartEncode(t) ==
    /\ t \in InStage("queued")
    /\ Cardinality(InStage("encoding")) < MaxWorkers
    /\ tasks' = AtStage(t, "encoding")
    /\ TasksOnly

\* encode returns in its thread; the future is resolved.
EncodeReturns(t) ==
    /\ t \in InStage("encoding")
    /\ tasks' = AtStage(t, "encoded")
    /\ TasksOnly

\* The event loop resumes the handler, which calls vector_search or
\* insert_cache_entry and blocks in aggregate or insert_one.
Resume(t) ==
    /\ t \in InStage("encoded")
    /\ LoopFree
    /\ tasks' = AtStage(t, IF tasks[t].op = "lookup" THEN "searching"
                           ELSE "inserting")
    /\ TasksOnly

\* aggregate or insert_one returns; the handler goes on to
\* increment_counter, which reads the counter.
StoreCallReturns(t) ==
    /\ t \in InStage("searching") \cup InStage("inserting")
    /\ tasks' = Put(tasks, t,
                    [tasks[t] EXCEPT
                        !.stage = "counting",
                        !.reg = GetOr(counters, TaskCounterKey(tasks[t].op),
                                      0)])
    /\ TasksOnly

\* increment_counter writes the counter, record_histogram appends the
\* latency (told apart by the request's number), and the handler returns.
Count(t) ==
    /\ t \in InStage("counting")
    /\ tasks' = AtStage(t, "done")
    /\ counters' = Put(counters, TaskCounterKey(tasks[t].op),
                       tasks[t].reg + 1)
    /\ histograms' = record_histogram(histograms,
                                      TaskHistogram(tasks[t].op), t, NoLabels)
    /\ recorded' =
          LET key == _make_key(TaskHistogram(tasks[t].op), NoLabels)
          IN Put(recorded, key, Append(GetOr(recorded, key, <<>>), t))
    /\ UNCHANGED <<store, now, gauges, nops, last, pending, embedCall, boot,
                   singletons, codec>>

NextTasks ==
    \E t \in TaskIds :
        \/ \E op \in TaskOps : Arrive(t, op)
        \/ StartEncode(t)
        \/ EncodeReturns(t)
        \/ Resume(t)
        \/ StoreCallReturns(t)
        \/ Count(t)

SpecTasks == Init /\ [][NextTasks]_vars

\* ------------------------------------------- requests, metrics may fail
\* POST /save_to_cache, as in Spec.
SaveFault ==
    /\ nops < MaxFaultOps
    /\ Save

\* POST /read_cache, whose awaited log_vector_search_metrics may raise.
LookupFault ==
    /\ nops < MaxFaultOps
    /\ \E user_id \in Users, query \in Texts, threshold \in ThresholdInputs,
          modelOk \in BOOLEAN, searchOk \in BOOLEAN,
          found \in 0..Len(store), metricsCall \in MetricsCalls :
           LookupCache(user_id, query, threshold, modelOk, searchOk, found,
                       metricsCall)
    /\ UNCHANGED <<pending, recorded, otherVars>>

NextFault == SaveFault \/ LookupFault

SpecFault == Init /\ [][NextFault]_vars

\* ------------------------------------------------- constructions, driven
ConstructionsOnly ==
    UNCHANGED <<store, now, counters, gauges, histograms, nops, last,
                pending, recorded, embedCall, boot, tasks, codec>>

Constructing == singletons.constructions < MaxConstructions

\* get_mongodb_manager()
ConstructManager(ok) ==
    /\ Constructing
    /\ singletons' = [singletons EXCEPT !.manager = ManagerNew(@, ok),
                                        !.constructions = @ + 1]
    /\ ConstructionsOnly

\* get_embedding_service()
ConstructEmbeddingService(ok) ==
    /\ Constructing
    /\ singletons' = [singletons EXCEPT !.embedding = EmbeddingNew(@, ok),
                                        !.constructions = @ + 1]
    /\ ConstructionsOnly

\* get_cache_service()
ConstructCacheService(connOk, modelOk) ==
    /\ Constructing
    /\ singletons' = [CacheServiceNew(singletons, connOk, modelOk)
                         EXCEPT !.constructions = @ + 1]
    /\ ConstructionsOnly

NextConstruct ==
    \/ \E ok \in BOOLEAN : ConstructManager(ok)
    \/ \E ok \in BOOLEAN : ConstructEmbeddingService(ok)
    \/ \E connOk \in BOOLEAN, modelOk \in BOOLEAN :
           ConstructCacheService(connOk, modelOk)

InitConstruct ==
    /\ InitService
    /\ boot = Starting
    /\ singletons = NotConstructed

SpecConstruct == InitConstruct /\ [][NextConstruct]_vars

\* ------------------------------------------- requests, any response text
\* CacheEntry.response is any str: the texts lookup_cache itself answers
\* with are among them.
AnyResponses == Responses \cup {"cache_miss", ""}

\* POST /save_to_cache with any response text.
SaveAnyResponse ==
    /\ nops < MaxTextOps
    /\ \E user_id \in Users, query \in Texts, response \in AnyResponses,
          timestamp \in TimestampInputs, embedding \in EmbeddingInputs,
          modelOk \in BOOLEAN, outcome \in InsertOutcomes :
           SaveToCache(user_id, query, response, timestamp, embedding,
                       modelOk, outcome)
    /\ UNCHANGED <<pending, recorded, otherVars>>

\* POST /read_cache, as in Spec.
LookupAnyResponse ==
    /\ nops < MaxTextOps
    /\ Lookup

NextTexts == SaveAnyResponse \/ LookupAnyResponse

SpecTexts == Init /\ [][NextTexts]_vars

\* --------------------------------------------------- the gateway, driven
\* The texts the gateway is driven with, and the batches of them.
GatewayTexts == Texts \cup {<<"b">>}

Batches == UNION {[1..n -> GatewayTexts] : n \in 0..MaxBatch}

\* One call of generate_embedding.
Embed(text, modelOk) ==
    /\ embedCall' = [op |-> "generate_embedding", texts |-> <<text>>,
                     modelOk |-> modelOk,
                     modelCalls |-> ModelCallsOf(text),
                     result |-> generate_embedding(text, modelOk)]
    /\ UNCHANGED <<store, now, counters, gauges, histograms, nops, last,
                   pending, recorded, boot, singletons, tasks, codec>>

\* One call of generate_embeddings_batch.
EmbedBatch(texts, modelOk) ==
    /\ embedCall' = [op |-> "generate_embeddings_batch", texts |-> texts,
                     modelOk |-> modelOk,
                     modelCalls |-> BatchModelCalls(texts),
                     result |-> generate_embeddings_batch(texts, modelOk)]
    /\ UNCHANGED <<store, now, counters, gauges, histograms, nops, last,
                   pending, recorded, boot, singletons, tasks, codec>>

NextGateway ==
    \/ \E text \in GatewayTexts, modelOk \in BOOLEAN : Embed(text, modelOk)
    \/ \E texts \in Batches, modelOk \in BOOLEAN : EmbedBatch(texts, modelOk)

SpecGateway == Init /\ [][NextGateway]_vars

\* ------------------------------------------------- the collector, driven
\* The histogram names and the sample values the collector is driven with.
HistogramNames == {"query_latency_ms", "similarity_score"}

SampleValues == 0..2

\* One call of metrics.record_histogram(name, value).
RecordHistogram(name, value) ==
    LET key == _make_key(name, NoLabels)
    IN /\ Len(GetOr(recorded, key, <<>>)) < MaxSamples
       /\ histograms' = record_histogram(histograms, name, value, NoLabels)
       /\ recorded' = Put(recorded, key,
                          Append(GetOr(recorded, key, <<>>), value))
       /\ UNCHANGED <<store, now, counters, gauges, nops, last, pending,
                      otherVars>>

Record ==
    \E name \in HistogramNames, value \in SampleValues :
        RecordHistogram(name, value)

\* MetricsCollector.reset_metrics
ResetMetrics ==
    /\ counters' = EmptyMap
    /\ gauges' = EmptyMap
    /\ histograms' = EmptyMap
    /\ recorded' = EmptyMap
    /\ UNCHANGED <<store, now, nops, last, pending, otherVars>>

NextMetrics == Record \/ ResetMetrics

SpecMetrics == Init /\ [][NextMetrics]_vars

\* ------------------------------------ counters and gauges, driven directly
\* The counters the program increments, each with one of its label sets,
\* and the gauge it sets, for either user.
CounterCalls ==
    {<<"cache_writes", {<<"status", "success">>}>>,
     <<"vector_search_total", {<<"result", "miss">>}>>,
     <<"cache_requests", {<<"user_id", "A">>, <<"hit", "False">>}>>}

GaugeCalls == {<<"candidates", {<<"user_id", u>>}>> : u \in Users}

\* The values written to a gauge: num_candidates, and another one.
GaugeValues == {DEFAULT_NUM_CANDIDATES, 0}

\* One call of metrics.increment_counter(name, labels=labels): every call
\* in the program leaves value at its default, 1.
IncrementCounter(name, labels) ==
    /\ GetOr(counters, _make_key(name, labels), 0) < MaxCount
    /\ counters' = increment_counter(counters, name, 1, labels)
    /\ UNCHANGED <<store, now, gauges, histograms, nops, last, pending,
                   recorded, otherVars>>

\* One call of metrics.set_gauge(name, value, labels).
SetGauge(name, value, labels) ==
    /\ gauges' = set_gauge(gauges, name, value, labels)
    /\ UNCHANGED <<store, now, counters, histograms, nops, last, pending,
                   recorded, otherVars>>

NextCollector ==
    \/ \E call \in CounterCalls : IncrementCounter(call[1], call[2])
    \/ \E call \in GaugeCalls, value \in GaugeValues :
           SetGauge(call[1], value, call[2])
    \/ ResetMetrics

SpecCollector == Init /\ [][NextCollector]_vars

\* ------------------------------------------------------------- properties
IsLookup == last.op = "lookup"

IsSave == last.op = "save"

IsHit == IsLookup /\ last.doc.present

\* The score of stored document i against the embedding of the last lookup.
ScoreOf(i) == VectorScore(store[i].embedding, last.embedding)

\* The stored documents of the last request's user that the index holds.
OwnDocs ==
    {i \in 1..Len(store) :
        /\ store[i].user_id = last.user_id
        /\ Len(store[i].embedding) = EMBEDDING_DIMENSIONS}

\* The indexed documents of the other users.
ForeignDocs ==
    {i \in 1..Len(store) :
        /\ store[i].user_id # last.user_id
        /\ Len(store[i].embedding) = EMBEDDING_DIMENSIONS}

\* C1: the document a lookup returns as its hit was saved under the user_id
\* of the lookup, and the response returned is that document's response.
C1_UserIsolation ==
    IsHit =>
        /\ last.doc.val.user_id = last.user_id
        /\ last.result.response = last.doc.val.response
        /\ \E i \in 1..Len(store) :
              /\ store[i].user_id = last.user_id
              /\ store[i].response = last.result.response

\* A lookup searched while another user's document scored at least the
\* threshold.
C1_Witness ==
    /\ IsLookup
    /\ last.searchCalled
    /\ ~last.searchRaised
    /\ \E i \in ForeignDocs : ScoreOf(i) >= last.threshold

\* C2: a hit reports a similarity_score of at least the effective threshold,
\* and a search that returned reports a hit whenever a document of the user
\* scores at least the threshold, equality included.
C2_ThresholdRespected ==
    /\ IsHit => last.result.similarity_score >= last.threshold
    /\ (IsLookup /\ last.searchCalled /\ ~last.searchRaised) =>
          (IsHit <=> \E i \in OwnDocs : ScoreOf(i) >= last.threshold)

\* A hit whose score equals the threshold, above 0.
C2_Witness ==
    /\ IsHit
    /\ last.threshold > 0
    /\ last.result.similarity_score = last.threshold

\* C3: a hit carries the response and the score of one stored document of
\* the user, and no indexed document of the user scores higher.
C3_MaxScoreReturned ==
    IsHit =>
        /\ \E i \in OwnDocs :
              /\ store[i].response = last.result.response
              /\ ScoreOf(i) = last.result.similarity_score
        /\ \A i \in OwnDocs : ScoreOf(i) <= last.result.similarity_score

\* A hit chosen among two documents of the user that pass the threshold with
\* different scores.
C3_Witness ==
    /\ IsHit
    /\ \E i, j \in OwnDocs :
          /\ ScoreOf(i) > ScoreOf(j)
          /\ ScoreOf(j) >= last.threshold

\* The last request is a lookup {u1, Q, 0.0} served right after a successful
\* save of {u1, Q, R} that carried no embedding; the saved document is
\* store[last.afterSave].
RoundTrip ==
    /\ IsLookup
    /\ last.afterSave > 0
    /\ ~last.afterSupplied
    /\ last.threshold = 0
    /\ store[last.afterSave].user_id = last.user_id
    /\ store[last.afterSave].query = last.query

C5_SearchFailureIsError ==
    (IsLookup /\ last.searchRaised) =>
        /\ last.result.response = ""
        /\ "error" \in DOMAIN last.result
        /\ "latency_ms" \in DOMAIN last.result

\* C5, amended: a lookup whose search raised returns what a miss returns:
\* response "cache_miss", latency reported, neither error nor
\* similarity_score.
C5_SearchFailureIsMiss ==
    (IsLookup /\ last.searchRaised) =>
        /\ last.result.response = "cache_miss"
        /\ DOMAIN last.result = {"response", "latency_ms"}

\* The search of a lookup raised while a document of the user passes the
\* threshold.
C5_Witness ==
    /\ IsLookup
    /\ last.searchRaised
    /\ \E i \in OwnDocs : ScoreOf(i) >= last.threshold

\* C6: a lookup or a save whose query is empty or whitespace-only ends with
\* an error, without a search and without an insert.
C6_BlankQueryRejected ==
    ((IsLookup \/ IsSave) /\ Strip(last.query) = <<>>) =>
        /\ "error" \in DOMAIN last.result
        /\ ~last.searchCalled
        /\ ~last.insertCalled

\* C7: the document a lookup returns as its hit is not older than the TTL
\* at the moment of the lookup.
C7_NoExpiredHit ==
    [][(nops' # nops /\ last'.op = "lookup" /\ last'.doc.present)
          => ~(now' - last'.doc.val.timestamp > CACHE_TTL_SECONDS)]_vars

\* C8: every stored embedding has exactly EMBEDDING_DIMENSIONS components.
C8_StoredDimensions ==
    \A i \in 1..Len(store) : Len(store[i].embedding) = EMBEDDING_DIMENSIONS

\* C9: a lookup result has a response; similarity_score is present iff the
\* search returned a document (HIT), and then the response is the document's;
\* error is present iff the lookup ended without a search result because the
\* embedding failed (ERROR), and then the response is ""; otherwise (MISS)
\* the response is "cache_miss".
C9_LookupShapes ==
    IsLookup =>
        LET r == last.result
            hit == last.doc.present
            err == last.embedding = <<>>
        IN /\ "response" \in DOMAIN r
           /\ ("similarity_score" \in DOMAIN r) <=> hit
           /\ ("error" \in DOMAIN r) <=> err
           /\ ~(hit /\ err)
           /\ hit => r.response = last.doc.val.response
           /\ err => r.response = ""
           /\ (~hit /\ ~err) => r.response = "cache_miss"

\* A lookup that searched and found nothing above the threshold although the
\* user has an indexed document.
C9_Witness ==
    /\ IsLookup
    /\ last.searchCalled
    /\ ~last.searchRaised
    /\ ~last.doc.present
    /\ OwnDocs # {}

\* The user of the last request has no stored document.
NoEntries == \A i \in 1..Len(store) : store[i].user_id # last.user_id

\* C10 as claimed: a lookup for a user without stored documents returns
\* "cache_miss", for every query and threshold.
C10_NoEntriesAlwaysMiss ==
    (IsLookup /\ NoEntries) => last.result.response = "cache_miss"

\* C10, amended: a lookup for a user without stored documents is never a
\* hit; it returns "cache_miss" whenever the query could be embedded, for
\* every threshold, and the embedding error with response "" otherwise.
C10_NoEntriesNeverHit ==
    (IsLookup /\ NoEntries) =>
        /\ "similarity_score" \notin DOMAIN last.result
        /\ last.embedding # <<>> => last.result.response = "cache_miss"
        /\ last.embedding = <<>> =>
              /\ last.result.response = ""
              /\ "error" \in DOMAIN last.result

\* A lookup with threshold 0.0 for a user without documents, while another
\* user's document is stored and indexed.
C10_Witness ==
    /\ IsLookup
    /\ NoEntries
    /\ last.searchCalled
    /\ last.threshold = 0
    /\ ForeignDocs # {}

\* The last request is a lookup whose search returned, served right after a
\* lookup of the same user_id and query whose search returned too; no save
\* and no expiry lies between the two, so both saw the same store.
Repeated ==
    /\ IsLookup
    /\ last.searchCalled
    /\ ~last.searchRaised
    /\ last.prev.kind # "none"

\* What a lookup of the last request's user and embedding may return at
\* threshold t on the present store.
AtThreshold(t) == Pipeline(store, last.user_id, last.embedding, t)

\* C11: when a lookup is a hit at threshold t2, a lookup of the same user and
\* query on the same store at any lower threshold is a hit with a score of
\* at least t2; when it is a miss at t1, no higher threshold gives a hit.
\* Stated of two lookups in a row and, for every threshold from 0.00 to
\* 1.00, of the pipeline the lookup ran.
C11_ThresholdMonotone ==
    /\ (Repeated /\ last.prev.kind = "hit"
               /\ last.threshold < last.prev.threshold) =>
          /\ IsHit
          /\ last.result.similarity_score >= last.prev.threshold
    /\ (Repeated /\ last.prev.kind = "miss"
               /\ last.threshold > last.prev.threshold) => ~IsHit
    /\ IsHit =>
          \A t \in 0..last.threshold :
              /\ AtThreshold(t) # {}
              /\ \A i \in AtThreshold(t) : ScoreOf(i) >= last.threshold
    /\ (IsLookup /\ last.searchCalled /\ ~last.searchRaised /\ ~IsHit) =>
          \A t \in last.threshold..100 : AtThreshold(t) = {}

\* A hit followed by a lookup of the same user and query at a lower
\* threshold, above 0.
C11_Witness ==
    /\ Repeated
    /\ last.prev.kind = "hit"
    /\ last.threshold > 0
    /\ last.threshold < last.prev.threshold

\* C12: with the embedding and the search succeeding, a lookup repeated with
\* the same user_id, query and threshold on the same store ends as the first
\* did, with the same score and the same response on a hit: the response
\* and the score of a hit are those of every document the pipeline may
\* return for this request on this store.
C12_Deterministic ==
    /\ (Repeated /\ last.threshold = last.prev.threshold) =>
          /\ IsHit <=> last.prev.kind = "hit"
          /\ IsHit =>
                /\ last.result.similarity_score = last.prev.score
                /\ last.result.response = last.prev.response
    /\ IsHit =>
          \A i \in AtThreshold(last.threshold) :
              /\ ScoreOf(i) = last.result.similarity_score
              /\ store[i].response = last.result.response

\* C13: the threshold a lookup searches with is the request's threshold
\* whenever the request carries one, 0.0 included, and SIMILARITY_THRESHOLD
\* only when it carries none; a search that returned is a hit exactly when a
\* document of the user scores at least that threshold.
C13_EffectiveThreshold ==
    IsLookup =>
        LET t == IF last.reqThreshold.present THEN last.reqThreshold.val
                 ELSE SIMILARITY_THRESHOLD
        IN /\ last.threshold = t
           /\ IsHit => last.result.similarity_score >= t
           /\ (last.searchCalled /\ ~last.searchRaised) =>
                 (IsHit <=> \E i \in OwnDocs : ScoreOf(i) >= t)

\* A lookup with the explicit threshold 0.0 that hits a document scoring
\* below SIMILARITY_THRESHOLD.
C13_Witness ==
    /\ IsHit
    /\ last.reqThreshold.present
    /\ last.reqThreshold.val = 0
    /\ last.result.similarity_score < SIMILARITY_THRESHOLD

\* C14: a save that carries no embedding and whose query the gateway cannot
\* embed (blank text, or the model raising) returns the error "Embedding
\* generation failed" without calling insert, and leaves the store and the
\* write counters as they were.
C14_SaveEmbeddingFailure ==
    [][(/\ nops' # nops
        /\ last'.op = "save"
        /\ ~last'.supplied
        /\ (Strip(last'.query) = <<>> \/ last'.modelRaised))
       => /\ store' = store
          /\ counters' = counters
          /\ ~last'.insertCalled
          /\ last'.result = [message |-> "Failed to save to cache",
                             error |-> "Embedding generation failed"]]_vars

\* A save without embedding whose model call raised, with a document already
\* stored.
C14_Witness ==
    /\ IsSave
    /\ ~last.supplied
    /\ last.modelRaised
    /\ "error" \in DOMAIN last.result
    /\ Len(store) > 0

C16_StructuredResults ==
    /\ IsLookup => "response" \in DOMAIN last.result
    /\ IsSave => "message" \in DOMAIN last.result

\* A save whose insert_one raised an error that insert_cache_entry does not
\* catch.
C16_Witness ==
    /\ IsSave
    /\ last.insertCalled
    /\ last.insertOutcome = "InvalidDocument"

\* C17: a successful save adds exactly one entry, the request's, after the
\* stored ones and leaves these unchanged, also when an entry of the same
\* user_id and query is stored; every other request leaves the store
\* unchanged; otherwise the store changes only by the removal of one entry
\* older than the TTL.
C17_AppendOnly ==
    [][/\ (nops' # nops /\ last'.op = "save" /\ last'.inserted) =>
             /\ Len(store') = Len(store) + 1
             /\ SubSeq(store', 1, Len(store)) = store
             /\ store'[Len(store')].user_id = last'.user_id
             /\ store'[Len(store')].query = last'.query
       /\ (nops' # nops /\ ~(last'.op = "save" /\ last'.inserted)) =>
             store' = store
       /\ nops' = nops =>
             \/ store' = store
             \/ \E i \in 1..Len(store) :
                   /\ Expired(store[i], now)
                   /\ store' = RemoveAt(store, i)]_vars

\* A successful save of a user_id and query that an older stored entry
\* carries, with another response.
C17_Witness ==
    /\ IsSave
    /\ last.inserted
    /\ Len(store) = 2
    /\ store[1].user_id = store[2].user_id
    /\ store[1].query = store[2].query
    /\ store[1].response # store[2].response

\* The external call the request being served waits for never answers.
Stalled ==
    \/ /\ pending.stage = "embedding"
       /\ ModelInvoked(pending.query)
       /\ pending.modelCall = "silent"
    \/ /\ pending.stage \in {"search", "insert"}
       /\ pending.storeCall = "silent"

\* C18: a request that waits for an external call which never answers is
\* cut off: a further step of the request (the timeout of the call, ending
\* the request with an error) is possible.
C18_StalledCallCutOff == Stalled => ENABLED RequestStep

\* The window of a histogram key, empty when nothing was recorded.
Window(key) == GetOr(histograms, key, <<>>)

\* C19: every histogram key holds at most max_history samples, and they are
\* the last ones recorded into the key, in recording order: all of them
\* while no more than max_history were recorded, the max_history most
\* recent ones after that.
C19_HistogramBound ==
    /\ \A key \in DOMAIN histograms : Len(histograms[key]) <= max_history
    /\ \A key \in DOMAIN recorded :
          LET n == Len(recorded[key])
          IN Window(key) =
                 SubSeq(recorded[key], n - Min2(n, max_history) + 1, n)

\* More than max_history samples were recorded into a key, and the oldest
\* one differs from the oldest one kept.
C19_Witness ==
    \E key \in DOMAIN recorded :
        /\ Len(recorded[key]) > max_history
        /\ Len(Window(key)) = max_history
        /\ recorded[key][1] # Window(key)[1]

\* x is the element at index k, counted from 0, of the sorted window w:
\* fewer than k + 1 samples are below x and at least k + 1 are at most x.
AtSortedIndex(w, k, x) ==
    /\ Cardinality({i \in 1..Len(w) : w[i] < x}) <= k
    /\ Cardinality({i \in 1..Len(w) : w[i] <= x}) > k

\* floor(count * pct / 100)
FloorOf(count, pct) ==
    CHOOSE k \in 0..count : 100 * k <= count * pct /\ 100 * (k + 1) > count * pct

\* C20: in the export, for every key with a non-empty window of size count,
\* p50, p95 and p99 are the elements at index floor(count * p) of the sorted
\* window, that index lies within 0..count-1 (for the windows reached and,
\* as arithmetic, for every count up to 100), and
\* min <= p50 <= p95 <= p99 <= max, min and max being the least and the
\* greatest sample.
C20_Percentiles ==
    /\ \A key \in DOMAIN histograms :
          histograms[key] # <<>> =>
              LET w == histograms[key]
                  count == Len(w)
                  h == get_metrics_summary(counters, gauges,
                                           histograms).histograms[key]
              IN /\ h.count = count
                 /\ \A pct \in {50, 95, 99} :
                       /\ PercentileIndex(count, pct) = FloorOf(count, pct)
                       /\ PercentileIndex(count, pct) \in 0..(count - 1)
                 /\ AtSortedIndex(w, FloorOf(count, 50), h.p50)
                 /\ AtSortedIndex(w, FloorOf(count, 95), h.p95)
                 /\ AtSortedIndex(w, FloorOf(count, 99), h.p99)
                 /\ \A i \in 1..count : h.min <= w[i] /\ w[i] <= h.max
                 /\ h.min <= h.p50
                 /\ h.p50 <= h.p95
                 /\ h.p95 <= h.p99
                 /\ h.p99 <= h.max
    /\ \A count \in 1..100 : \A pct \in {50, 95, 99} :
          PercentileIndex(count, pct) \in 0..(count - 1)

\* A full window whose least sample, median and 95th percentile differ.
C20_Witness ==
    \E key \in DOMAIN histograms :
        /\ Len(histograms[key]) = max_history
        /\ LET h == HistogramSummary(histograms[key])
           IN h.min < h.p50 /\ h.p50 < h.p95

\* C22 (as claimed): the adapter's insert never raises: whatever error the
\* driver raises during the write, the caller gets False and no exception.
C22_InsertNeverRaises ==
    (IsSave /\ last.insertCalled) => ~last.insertRaised

\* The sum of the counters of one name, over all label sets.
RECURSIVE SumOver(_, _)
SumOver(f, keys) ==
    IF keys = {} THEN 0
    ELSE LET k == CHOOSE x \in keys : TRUE
         IN f[k] + SumOver(f, keys \ {k})

CounterTotal(c, name) == SumOver(c, {k \in DOMAIN c : k[1] = name})

\* The number of samples a histogram holds.
Samples(h, name) == Len(GetOr(h, _make_key(name, NoLabels), <<>>))

\* The request being served returns in this step.
Returns(op) ==
    /\ pending.stage # "idle"
    /\ pending.op = op
    /\ pending'.stage = "idle"

\* C24: a lookup invokes the gateway exactly once and the vector search at
\* most once; the search is entered only from the gateway call and only when
\* that call returned a non-empty vector, and neither call is entered a
\* second time: after the search the lookup returns.
C24_LookupProtocol ==
    [][/\ pending'.stage = "embedding" => pending.stage = "idle"
       /\ pending'.stage = "search" =>
             /\ pending.stage = "embedding"
             /\ pending.op = "lookup"
             /\ generate_embedding(pending.query,
                                   pending.modelCall = "returns") # <<>>
       /\ pending.stage = "search" => pending'.stage = "idle"
       /\ Returns("lookup") =>
             /\ last'.op = "lookup"
             /\ last'.calls \in {<<"generate_embedding">>,
                                 <<"generate_embedding", "vector_search">>}
             /\ last'.searchCalled <=> pending.stage = "search"
             /\ last'.searchCalled <=> last'.embedding # <<>>
             /\ last'.searchCalled <=> Len(last'.calls) = 2
             /\ CounterTotal(counters', "vector_search_total")
                    = CounterTotal(counters, "vector_search_total")
                          + (IF last'.searchCalled THEN 1 ELSE 0)
      ]_vars

\* The second request served is a lookup that went on from the gateway to
\* the search, and the search has been counted once.
C24_Witness ==
    /\ IsLookup
    /\ last.calls = <<"generate_embedding", "vector_search">>
    /\ CounterTotal(counters, "vector_search_total") = 1
    /\ nops = 2

RequestsKey(user_id, cache_hit) ==
    _make_key("cache_requests",
              {<<"user_id", user_id>>, <<"hit", BoolStr(cache_hit)>>})

\* Histogram `name` has gained exactly the sample `value` in this step.
Sampled(name, value) ==
    LET key == _make_key(name, NoLabels)
    IN /\ key \in DOMAIN histograms'
       /\ histograms'[key] = Append(GetOr(histograms, key, <<>>), value)

\* Counter `key` has grown by one in this step and no other counter of its
\* name has changed.
CountedOnce(key) ==
    /\ key \in DOMAIN counters'
    /\ counters'[key] = GetOr(counters, key, 0) + 1
    /\ \A k \in DOMAIN counters' :
          (k[1] = key[1] /\ k # key) =>
              k \in DOMAIN counters /\ counters'[k] = counters[k]

\* C26: a lookup that ends in HIT or MISS adds exactly one to cache_requests
\* under its user_id and hit=True or hit=False, and records one query
\* latency sample and one similarity sample, the hit's score on HIT and 0 on
\* MISS; a lookup whose embedding failed records nothing.
C26_LookupMetrics ==
    [][Returns("lookup") =>
          IF last'.embedding = <<>>
          THEN /\ last'.result = EmbeddingFailedResult
               /\ UNCHANGED metricsVars
          ELSE /\ CountedOnce(RequestsKey(last'.user_id, last'.doc.present))
               /\ Sampled("query_latency_ms", last'.result.latency_ms)
               /\ Sampled("similarity_score",
                          IF last'.doc.present
                          THEN last'.doc.val.vector_score ELSE 0)
               /\ last'.doc.present =>
                     last'.result.similarity_score
                         = last'.doc.val.vector_score
               /\ ~last'.doc.present => last'.result = MissResult(0)
               /\ CounterTotal(counters', "cache_requests")
                      = CounterTotal(counters, "cache_requests") + 1
      ]_vars

\* A HIT with a positive score has been recorded.
C26_Witness ==
    /\ IsHit
    /\ last.doc.val.vector_score > 0
    /\ GetOr(counters, RequestsKey(last.user_id, TRUE), 0) = 1
    /\ GetOr(histograms, _make_key("similarity_score", NoLabels), <<>>)
           = <<last.doc.val.vector_score>>

\* The key of the vector_search_total counter of one result.
SearchKey(result) == _make_key("vector_search_total", {<<"result", result>>})

\* Counter `key` is what it was before this step.
NotCounted(key) == GetOr(counters', key, 0) = GetOr(counters, key, 0)

\* C27 (amended): a search that fails is counted by the adapter as
\* vector_search_total result=error and not as result=miss, and leaves no
\* search latency sample; the lookup itself, which sees no match, is still
\* recorded as a miss: cache_requests hit=False and a similarity sample of 0.
C27_SearchErrorCounted ==
    [][(Returns("lookup") /\ last'.searchRaised) =>
          /\ CountedOnce(SearchKey("error"))
          /\ NotCounted(SearchKey("miss"))
          /\ Samples(histograms', "vector_search_latency_ms")
                 = Samples(histograms, "vector_search_latency_ms")
          /\ last'.result = MissResult(0)
          /\ CountedOnce(RequestsKey(last'.user_id, FALSE))
          /\ Sampled("similarity_score", 0)
      ]_vars

\* A lookup whose search failed has been counted.
C27_Witness ==
    /\ IsLookup
    /\ last.searchRaised
    /\ GetOr(counters, SearchKey("error"), 0) = 1
    /\ GetOr(counters, RequestsKey(last.user_id, FALSE), 0) = 1

\* C27 (as claimed): a lookup whose search failed is counted as an error and
\* leaves no miss record, neither vector_search_total result=miss nor
\* cache_requests hit=False.
C27_NoMissRecorded ==
    [][(Returns("lookup") /\ last'.searchRaised) =>
          /\ CountedOnce(SearchKey("error"))
          /\ NotCounted(SearchKey("miss"))
          /\ NotCounted(RequestsKey(last'.user_id, FALSE))
      ]_vars

\* The metrics written inside MongoDBManager, the adapter: every other
\* metric is written by cache_service.py or by log_vector_search_metrics,
\* which it calls.
AdapterCounters == {"vector_search_total", "cache_writes"}

AdapterHistograms == {"vector_search_latency_ms"}

\* C28 (as claimed): the adapter records no metrics: its search and its
\* insert leave every counter, gauge and histogram as they were, so no
\* metric that only the adapter writes ever holds anything.
C28_AdapterRecordsNothing ==
    /\ \A k \in DOMAIN counters : k[1] \notin AdapterCounters
    /\ \A k \in DOMAIN histograms : k[1] \notin AdapterHistograms

\* A text with a character that is not white space.
NonBlank(text) == \E i \in 1..Len(text) : text[i] # " "

\* C21: the gateway never hands the model an empty or whitespace-only text.
\* generate_embedding returns [] for such a text without a model call;
\* generate_embeddings_batch drops such texts, returns [] without a model
\* call when none is left, and otherwise calls the model once with the
\* remaining texts in their order and returns one vector per remaining text
\* in that order.
C21_BlankTextNeverEmbedded ==
    embedCall.op # "none" =>
        LET nonBlank == SelectSeq(embedCall.texts, NonBlank)
            calls == embedCall.modelCalls
        IN /\ Len(calls) <= 1
           /\ embedCall.op = "generate_embedding" =>
                 /\ nonBlank = <<>> =>
                       calls = <<>> /\ embedCall.result = <<>>
                 /\ nonBlank # <<>> =>
                       /\ calls = embedCall.texts
                       /\ embedCall.modelOk =>
                             embedCall.result = ModelEncode(calls[1])
           /\ embedCall.op = "generate_embeddings_batch" =>
                 /\ nonBlank = <<>> =>
                       calls = <<>> /\ embedCall.result = <<>>
                 /\ nonBlank # <<>> =>
                       /\ calls = <<nonBlank>>
                       /\ embedCall.modelOk =>
                             /\ Len(embedCall.result) = Len(nonBlank)
                             /\ \A i \in 1..Len(nonBlank) :
                                   embedCall.result[i]
                                       = ModelEncode(nonBlank[i])
                       /\ ~embedCall.modelOk => embedCall.result = <<>>

\* A batch of a blank text between two texts with different vectors has
\* been embedded.
C21_Witness ==
    /\ embedCall.op = "generate_embeddings_batch"
    /\ embedCall.texts = <<<<"b">>, <<" ">>, <<"a">>>>
    /\ embedCall.result = <<<<0, 5>>, <<5, 0>>>>

\* C29 (as claimed): a failure while recording metrics never changes the
\* outcome of a request: a lookup whose search returned a candidate returns
\* HIT with that candidate's response even when recording its metrics fails.
C29_MetricsFailureHarmless ==
    (IsLookup /\ last.metricsRaised /\ last.doc.present) =>
        last.result = HitResult(last.doc.val, 0)

\* C23 (as claimed): startup aborts, and then no request is ever served,
\* when the storage connection cannot be established or the embedding model
\* cannot be loaded, and for no other failure; a failure to create the
\* vector search index or the TTL index leaves startup going.
C23_OnlyConnectionAndModelFatal ==
    /\ boot.phase = "aborted" =>
          /\ nops = 0
          /\ last = NoRequest
          /\ boot.failed \in {"storage connection", "embedding model"}
    /\ boot.phase # "aborted" => boot.failed = "none"
    /\ nops > 0 => boot.phase = "up"

\* What holds of the code: the fatal steps are the two connections, the
\* collection setup and the model load; a missing index is not fatal.
StartupFatalSteps ==
    /\ boot.phase = "aborted" =>
          /\ nops = 0
          /\ last = NoRequest
          /\ boot.failed \in {"storage connection", "collection",
                              "embedding model"}
    /\ boot.phase # "aborted" => boot.failed = "none"
    /\ nops > 0 => boot.phase = "up"

\* A request has been served by a service that came up without its indexes.
ServedWithoutIndexes ==
    /\ boot.phase = "up"
    /\ ~boot.vector_index
    /\ ~boot.ttl_index
    /\ nops > 0

\* C30 (as claimed): with the one shared model instance, at most one model
\* invocation executes at any time: the embedding calls of concurrent
\* requests wait on a single worker and never run in parallel.
C30_OneModelCallAtATime == Cardinality(InStage("encoding")) <= 1

\* Another request can start, and a request whose model call has returned
\* can go on.
OthersCanRun ==
    /\ \A u \in TaskIds \ DOMAIN tasks : ENABLED Arrive(u, "lookup")
    /\ \A u \in InStage("encoded") : ENABLED Resume(u)

\* No handler is in the middle of its own work on the event loop.
NobodyCounting == InStage("counting") = {}

\* While a request waits for its model call, and no request is inside a
\* store call, other requests can start and go on.
EmbeddingSuspends ==
    (NobodyCounting /\ InStage("searching") \cup InStage("inserting") = {}) =>
        OthersCanRun

\* C31 (as claimed): the model call and the store round trip are both
\* suspension points: while a request waits for its embedding, its search or
\* its insert, other requests can start and make progress.
C31_SuspensionPoints ==
    NobodyCounting =>
        \A t \in DOMAIN tasks :
            tasks[t].stage \in {"queued", "encoding", "searching",
                                "inserting"} => OthersCanRun

\* The requests of one kind that have returned.
Done(op) == {t \in InStage("done") : tasks[t].op = op}

\* C32: metric updates are safe under concurrent requests.  In every state
\* in which no increment is under way, and so once all requests are done,
\* each counter equals the number of increments issued on its key and each
\* histogram key holds the last min(n, max_history) of the n samples
\* recorded on it: no update is lost.
C32_NoUpdateLost ==
    NobodyCounting =>
        /\ \A op \in TaskOps :
              /\ GetOr(counters, TaskCounterKey(op), 0)
                     = Cardinality(Done(op))
              /\ Len(GetOr(recorded, _make_key(TaskHistogram(op), NoLabels),
                           <<>>)) = Cardinality(Done(op))
        /\ \A key \in DOMAIN recorded :
              LET n == Len(recorded[key])
              IN Window(key)
                     = SubSeq(recorded[key], n - Min2(n, max_history) + 1, n)

\* Every request is done, the later lookup before the earlier one, and the
\* window of the lookups has dropped its oldest sample.
C32_Witness ==
    /\ DOMAIN tasks = TaskIds
    /\ InStage("done") = TaskIds
    /\ LET samples == GetOr(recorded,
                            _make_key("query_latency_ms", NoLabels), <<>>)
       IN /\ Len(samples) > max_history
          /\ samples[1] = 2
          /\ samples[2] = 1

\* C33: every counter is a non-negative integer and never decreases from
\* one state to the next unless reset_metrics clears the collector, and a
\* gauge holds the value last written to its key: it changes only in a
\* set_gauge call on its key, to the value written, and is cleared only by
\* a reset.
C33_CountersAndGauges ==
    [][/\ \A k \in DOMAIN counters' : counters'[k] \in Nat
       /\ \/ counters' = EmptyMap /\ gauges' = EmptyMap
          \/ /\ \A k \in DOMAIN counters :
                   k \in DOMAIN counters' /\ counters'[k] >= counters[k]
             /\ \A k \in DOMAIN gauges : k \in DOMAIN gauges'
       /\ \A call \in GaugeCalls, value \in GaugeValues :
             SetGauge(call[1], value, call[2]) =>
                 gauges'[_make_key(call[1], call[2])] = value
       /\ \A k \in DOMAIN gauges' :
             (k \notin DOMAIN gauges \/ gauges'[k] # gauges[k]) =>
                 \E call \in GaugeCalls, value \in GaugeValues :
                     /\ _make_key(call[1], call[2]) = k
                     /\ gauges'[k] = value
                     /\ counters' = counters
                     /\ \A j \in DOMAIN gauges' \ {k} :
                           j \in DOMAIN gauges /\ gauges'[j] = gauges[j]
      ]_vars

\* A counter has been incremented more than once and a gauge, written
\* twice, holds 0 beside a gauge that holds the other value.
C33_Witness ==
    /\ \E k \in DOMAIN counters : counters[k] > 1
    /\ \E k, j \in DOMAIN gauges :
          gauges[k] = 0 /\ gauges[j] = DEFAULT_NUM_CANDIDATES

\* The sum over all users of cache_requests with one value of hit.
RequestsTotal(cache_hit) ==
    SumOver(counters,
            {k \in DOMAIN counters :
                /\ k[1] = "cache_requests"
                /\ <<"hit", BoolStr(cache_hit)>> \in k[2]})

\* C34: between requests the search counters and the request counters
\* agree: vector_search_total result=hit equals the sum over the users of
\* cache_requests hit=True, and result=miss plus result=error equals the sum
\* over the users of cache_requests hit=False.
C34_CrossMetricConsistency ==
    /\ GetOr(counters, SearchKey("hit"), 0) = RequestsTotal(TRUE)
    /\ GetOr(counters, SearchKey("miss"), 0)
           + GetOr(counters, SearchKey("error"), 0) = RequestsTotal(FALSE)

\* A miss and a failed search have been counted, for two users.
C34_Witness ==
    /\ GetOr(counters, SearchKey("miss"), 0) = 1
    /\ GetOr(counters, SearchKey("error"), 0) = 1
    /\ GetOr(counters, RequestsKey("A", FALSE), 0) = 1
    /\ GetOr(counters, RequestsKey("B", FALSE), 0) = 1

\* C35 (as claimed): the miss sentinel is unambiguous: a lookup answers
\* "cache_miss" only when it ended in MISS and "" only when it ended in
\* ERROR, and a HIT never carries either text, whatever was saved.
C35_SentinelUnambiguous ==
    IsLookup =>
        /\ last.result.response = "cache_miss" =>
              last.searchCalled /\ ~last.doc.present
        /\ last.result.response = "" => "error" \in DOMAIN last.result
        /\ IsHit => last.result.response \notin {"cache_miss", ""}

\* C36: shared collaborators are initialized at most once.  Once the manager
\* is initialized no construction builds another client, and once the model
\* is loaded no construction loads another; every cache service built
\* reaches the one client and the one model; and a construction of the
\* manager that fails leaves it uninitialized, so that the next one builds a
\* client again.
C36_InitializedOnce ==
    [][/\ singletons.manager.initialized =>
             singletons'.manager = singletons.manager
       /\ singletons.embedding.model # 0 =>
             singletons'.embedding = singletons.embedding
       /\ \A svc \in singletons'.services :
             /\ singletons'.manager.initialized
             /\ svc.client = singletons'.manager.client
             /\ svc.model = singletons'.embedding.model
             /\ svc.model # 0
       /\ (~singletons.manager.initialized
              /\ singletons'.manager # singletons.manager) =>
             /\ singletons'.manager.clients
                    = singletons.manager.clients + 1
             /\ singletons'.manager.client = singletons'.manager.clients
       /\ ~singletons.manager.initialized =>
             ENABLED ConstructManager(TRUE) \/ ~Constructing
      ]_vars

\* Two cache services have been built after a first construction of the
\* manager failed: they share the second client and the one model.
C36_Witness ==
    /\ singletons.built = 2
    /\ singletons.manager.initialized
    /\ singletons.manager.clients = 2
    /\ singletons.embedding.loads = 1
    /\ Cardinality(singletons.services) = 1

\* C37: a lookup is read-only on the store.  From the moment it is routed
\* to its return, in HIT, MISS or ERROR, no step of a lookup changes the
\* stored entries or any field of one.
C37_LookupReadOnly ==
    [][((pending.stage # "idle" /\ pending.op = "lookup")
           \/ (pending'.stage # "idle" /\ pending'.op = "lookup")) =>
          store' = store
      ]_vars

\* The three ends: a lookup has returned a stored entry.
C37_Witness ==
    /\ IsHit
    /\ pending.stage = "idle"
    /\ Len(store) = 1
    /\ last.result.response = store[1].response
    /\ store[1].timestamp = 0

\* C38: the vector storage round trip.  For every vector and every vector
\* type, decoding the encoding returns a vector with as many components
\* as the vector has; for float32 it is the vector itself; for int8 every
\* component lies within half a quantization step, (max - min) / 255 / 2,
\* of the original.
C38_VectorRoundTrip ==
    codec.vector_type # "none" =>
        LET v == codec.vector
            d == codec.decoded
            Off(i) == IF d[i] >= v[i] THEN d[i] - v[i] ELSE v[i] - d[i]
        IN /\ ~codec.raised
           /\ Len(d) = Len(v)
           /\ codec.vector_type = "float32" => d = v
           /\ codec.vector_type = "int8" =>
                 \A i \in 1..Len(v) : \E j, k \in 1..Len(v) :
                     2 * 255 * Off(i) <= v[j] - v[k]

====
